---- MODULE Spec2Model ----
(***************************************************************************)
(* Model of src/src/App.tsx: the AnimatedScene frame callback (the         *)
(* animation timeline controller) with its scene transforms, derived       *)
(* signal emission and completion callback.                                *)
(*                                                                         *)
(* Numbers.  Times are integers counting tenths of a second (3 s is 30).   *)
(* Every other number is an exact rational <<n, d>> with d > 0, stored in  *)
(* lowest terms, so easing, interpolation and the 0.005 deadband are      *)
(* computed exactly as the source's formulas state them.  Angles are in    *)
(* units of pi.                                                            *)
(***************************************************************************)
EXTENDS Integers, Sequences, FiniteSets, TLC

\* ------------------------------------------------------------------ bounds
\* Largest clock value (tenths of a second) the model lets the clock reach.
MaxClock == 105
\* Largest clock advance (tenths of a second) between two frame ticks.
MaxStep == 14
\* Text sequencers: line lists of up to MaxLines lines, each empty or of
\* MaxLineLen characters.
MaxLines == 3
MaxLineLen == 2

\* ------------------------------------------------------- exact rationals
Abs(n) == IF n < 0 THEN -n ELSE n

RECURSIVE GCD(_, _)
GCD(a, b) == IF b = 0 THEN a ELSE GCD(b, a % b)

Norm(n, d) ==
  LET g == GCD(Abs(n), Abs(d))
      s == IF d < 0 THEN -1 ELSE 1
  IN <<(s * n) \div g, (s * d) \div g>>

R(n) == <<n, 1>>
\* Arithmetic leaves its result unreduced; Q reduces a value to lowest terms
\* where it is stored, and comparisons cross-multiply (denominators are > 0).
Q(a) == Norm(a[1], a[2])
RAdd(a, b) == <<a[1] * b[2] + b[1] * a[2], a[2] * b[2]>>
RSub(a, b) == <<a[1] * b[2] - b[1] * a[2], a[2] * b[2]>>
RMul(a, b) == <<a[1] * b[1], a[2] * b[2]>>
RDiv(a, b) == IF b[1] < 0 THEN <<-(a[1] * b[2]), -(a[2] * b[1])>>
              ELSE <<a[1] * b[2], a[2] * b[1]>>
RLess(a, b) == a[1] * b[2] < b[1] * a[2]
RLeq(a, b) == a[1] * b[2] <= b[1] * a[2]
REq(a, b) == a[1] * b[2] = b[1] * a[2]
RAbs(a) == <<Abs(a[1]), a[2]>>
RMin(a, b) == IF RLess(b, a) THEN b ELSE a
RMax(a, b) == IF RLess(a, b) THEN b ELSE a
Max(a, b) == IF a < b THEN b ELSE a

\* --------------------------------------------------------- math helpers
clamp(value, min, max) == RMin(max, RMax(min, value))

lerp(from, to, t) == RAdd(from, RMul(RSub(to, from), t))

easeOutCubic(t) ==
  LET u == RSub(R(1), t)
  IN RSub(R(1), RMul(u, RMul(u, u)))

\* ------------------------------------------------------------ constants
CAKE_START_Y == 10
CAKE_END_Y == 0
CAKE_DESCENT_DURATION == 30

TABLE_START_Z == 30
TABLE_END_Z == 0
TABLE_SLIDE_DURATION == 7
TABLE_SLIDE_START == CAKE_DESCENT_DURATION - TABLE_SLIDE_DURATION - 1

CANDLE_START_Y == 5
CANDLE_END_Y == 0
CANDLE_DROP_DURATION == 12
\* Mutant: the candle starts when the table stops, without waiting for the
\* cake and without the extra second.
CANDLE_DROP_START_Early == TABLE_SLIDE_START + TABLE_SLIDE_DURATION

CANDLE_DROP_START ==
  Max(CAKE_DESCENT_DURATION, TABLE_SLIDE_START + TABLE_SLIDE_DURATION) + 10

totalAnimationTime == CANDLE_DROP_START + CANDLE_DROP_DURATION

BACKGROUND_FADE_DURATION == 10
BACKGROUND_FADE_OFFSET == 0
BACKGROUND_FADE_END ==
  Max(CANDLE_DROP_START - BACKGROUND_FADE_OFFSET, BACKGROUND_FADE_DURATION)
BACKGROUND_FADE_START ==
  Max(BACKGROUND_FADE_END - BACKGROUND_FADE_DURATION, 0)

\* The emission deadband 0.005 of emitBackgroundOpacity/emitEnvironmentProgress.
Deadband == Norm(5, 1000)

\* animationStartRef.current === null
Null == -1

\* ---------------------------------------------------------------- state
VARIABLES
  clock,                   \* clock.elapsedTime at the last frame, in tenths
  isPlaying,               \* the isPlaying prop read by the last frame
  refsAttached,            \* cakeGroup/tableGroup/candleGroup.current non-null
  effectRan,               \* the mount effect has run
  cake,                    \* [position, rotation] of the cake group
  table,                   \* [position, rotation] of the table group
  candle,                  \* [position, visible] of the candle group
  animationStartRef,
  hasPrimedRef,
  hasCompletedRef,
  completionNotifiedRef,
  backgroundOpacityRef,    \* last value delivered to onBackgroundFadeChange
  environmentProgressRef,  \* last value delivered to onEnvironmentProgressChange
  log,                     \* effects of the last step, in program order
  lastOp,                  \* which step produced the current state
  sessionCompletions,      \* onAnimationComplete calls since the last paused tick
  completions              \* onAnimationComplete calls since construction

\* The state of App: its useState cells, the line lists its two text
\* sequencers type, and the window's pending timeouts.
VARIABLES
  TYPED_LINES,             \* the intro's lines, each a sequence of characters
  TERMINAL_LINES,          \* the camera terminal's lines
  appMounted,              \* App's mount effects have run
  hasStarted,
  currentLineIndex,
  currentCharIndex,
  sceneStarted,
  hasAnimationCompleted,
  isCandleLit,
  fireworksActive,
  showCameraModal,
  terminalLineIndex,
  terminalCharIndex,
  terminalTypingComplete,
  timers,                  \* pending window.setTimeout callbacks, in order
  introHandle,             \* the timeout the intro effect's cleanup clears
  terminalHandle,          \* the timeout the terminal effect's cleanup clears
  lastFired                \* history: the timeout the last step fired, if any

sceneVars ==
  <<clock, isPlaying, refsAttached, effectRan, cake, table, candle,
    animationStartRef, hasPrimedRef, hasCompletedRef, completionNotifiedRef,
    backgroundOpacityRef, environmentProgressRef, log, lastOp,
    sessionCompletions, completions>>

appVars ==
  <<TYPED_LINES, TERMINAL_LINES, appMounted, hasStarted, currentLineIndex,
    currentCharIndex, sceneStarted, hasAnimationCompleted, isCandleLit,
    fireworksActive, showCameraModal, terminalLineIndex, terminalCharIndex,
    terminalTypingComplete, timers, introHandle, terminalHandle, lastFired>>

\* App's own state: appVars without the history variable.
appState ==
  <<TYPED_LINES, TERMINAL_LINES, appMounted, hasStarted, currentLineIndex,
    currentCharIndex, sceneStarted, hasAnimationCompleted, isCandleLit,
    fireworksActive, showCameraModal, terminalLineIndex, terminalCharIndex,
    terminalTypingComplete, timers, introHandle, terminalHandle>>

vars == <<sceneVars, appVars>>

Vec(x, y, z) == <<R(x), R(y), R(z)>>

\* The refs and scene objects of one AnimatedScene instance as one record,
\* threaded through the statements of the frame callback.
State ==
  [cake |-> cake, table |-> table, candle |-> candle,
   animationStartRef |-> animationStartRef,
   hasPrimedRef |-> hasPrimedRef,
   hasCompletedRef |-> hasCompletedRef,
   completionNotifiedRef |-> completionNotifiedRef,
   backgroundOpacityRef |-> backgroundOpacityRef,
   environmentProgressRef |-> environmentProgressRef,
   log |-> <<>>]

WriteEv(target) == <<"write", target>>
CompleteEv == <<"onAnimationComplete">>

\* -------------------------------------------------- deadband emission
\* Mutant: the background signal is delivered on any change, without deadband.
emitBackgroundOpacity_NoDeadband(s, value) ==
  LET clamped == Q(clamp(value, R(0), R(1)))
  IN IF clamped # s.backgroundOpacityRef
     THEN [s EXCEPT !.backgroundOpacityRef = clamped,
                    !.log = Append(@, <<"onBackgroundFadeChange", clamped>>)]
     ELSE s

emitBackgroundOpacity(s, value) ==
  LET clamped == Q(clamp(value, R(0), R(1)))
  IN IF RLess(Deadband, RAbs(RSub(clamped, s.backgroundOpacityRef)))
     THEN [s EXCEPT !.backgroundOpacityRef = clamped,
                    !.log = Append(@, <<"onBackgroundFadeChange", clamped>>)]
     ELSE s

\* Mutant: the environment signal uses a wider deadband (0.01) than the
\* background signal.
emitEnvironmentProgress_WideDeadband(s, value) ==
  LET clamped == Q(clamp(value, R(0), R(1)))
  IN IF RLess(Norm(10, 1000), RAbs(RSub(clamped, s.environmentProgressRef)))
     THEN [s EXCEPT !.environmentProgressRef = clamped,
                    !.log = Append(@, <<"onEnvironmentProgressChange", clamped>>)]
     ELSE s

emitEnvironmentProgress(s, value) ==
  LET clamped == Q(clamp(value, R(0), R(1)))
  IN IF RLess(Deadband, RAbs(RSub(clamped, s.environmentProgressRef)))
     THEN [s EXCEPT !.environmentProgressRef = clamped,
                    !.log = Append(@, <<"onEnvironmentProgressChange", clamped>>)]
     ELSE s

\* ------------------------------------------- branches of the frame tick
\* Mutant: priming ignores hasPrimedRef and runs on every frame.
Priming_Always(s) ==
  [s EXCEPT
     !.cake = [position |-> Vec(0, CAKE_START_Y, 0),
               rotation |-> Vec(0, 0, 0)],
     !.table = [position |-> Vec(0, 0, TABLE_START_Z),
                rotation |-> Vec(0, 0, 0)],
     !.candle = [position |-> Vec(0, CANDLE_START_Y, 0),
                 visible |-> FALSE],
     !.hasPrimedRef = TRUE,
     !.log = @ \o <<WriteEv("cake"), WriteEv("table"), WriteEv("candle")>>]

Priming(s) ==
  IF ~s.hasPrimedRef
  THEN [s EXCEPT
          !.cake = [position |-> Vec(0, CAKE_START_Y, 0),
                    rotation |-> Vec(0, 0, 0)],
          !.table = [position |-> Vec(0, 0, TABLE_START_Z),
                     rotation |-> Vec(0, 0, 0)],
          !.candle = [position |-> Vec(0, CANDLE_START_Y, 0),
                      visible |-> FALSE],
          !.hasPrimedRef = TRUE,
          !.log = @ \o <<WriteEv("cake"), WriteEv("table"), WriteEv("candle")>>]
  ELSE s

\* Mutant: the paused branch forgets to clear the completed flag.
PausedBranch_KeepsCompleted(s) ==
  LET a == emitBackgroundOpacity(s, R(1))
      b == emitEnvironmentProgress(a, R(0))
  IN [b EXCEPT !.animationStartRef = Null,
               !.completionNotifiedRef = FALSE]

\* Mutant: the paused branch rewinds the transforms to the start pose.
PausedBranch_Rewinds(s) ==
  LET a == emitBackgroundOpacity(s, R(1))
      b == emitEnvironmentProgress(a, R(0))
  IN [b EXCEPT !.cake = [position |-> Vec(0, CAKE_START_Y, 0),
                         rotation |-> Vec(0, 0, 0)],
               !.table = [position |-> Vec(0, 0, TABLE_START_Z),
                          rotation |-> Vec(0, 0, 0)],
               !.candle = [position |-> Vec(0, CANDLE_START_Y, 0),
                           visible |-> FALSE],
               !.animationStartRef = Null,
               !.hasCompletedRef = FALSE,
               !.completionNotifiedRef = FALSE]

PausedBranch(s) ==
  LET a == emitBackgroundOpacity(s, R(1))
      b == emitEnvironmentProgress(a, R(0))
  IN [b EXCEPT !.animationStartRef = Null,
               !.hasCompletedRef = FALSE,
               !.completionNotifiedRef = FALSE]

\* Mutant: the completed branch notifies without the completionNotified guard.
CompletedBranch_NoGuard(s) ==
  LET a == emitBackgroundOpacity(s, R(0))
      b == emitEnvironmentProgress(a, R(1))
  IN [b EXCEPT !.completionNotifiedRef = TRUE,
               !.log = Append(@, CompleteEv)]

CompletedBranch(s) ==
  LET a == emitBackgroundOpacity(s, R(0))
      b == emitEnvironmentProgress(a, R(1))
  IN IF ~b.completionNotifiedRef
     THEN [b EXCEPT !.completionNotifiedRef = TRUE,
                    !.log = Append(@, CompleteEv)]
     ELSE b

\* Mutant: the start time is set once and survives the pause (it is only
\* initialised when the controller has never played).
StartClock_Origin(s, t) ==
  IF s.animationStartRef = Null
  THEN [s EXCEPT !.animationStartRef = 0]
  ELSE s

\* Mutant: the start time is taken anew on every playing frame.
StartClock_EveryFrame(s, t) == [s EXCEPT !.animationStartRef = t]

StartClock(s, t) ==
  IF s.animationStartRef = Null
  THEN [s EXCEPT !.animationStartRef = t]
  ELSE s

\* Mutant: the cake progress is not clamped to [0, 1].
CakeSegment_Unclamped(s, clampedElapsed) ==
  LET cakeProgress == RDiv(clampedElapsed, R(CAKE_DESCENT_DURATION))
      cakeEase == easeOutCubic(cakeProgress)
  IN [s EXCEPT
        !.cake = [position |-> <<R(0),
                                 Q(lerp(R(CAKE_START_Y), R(CAKE_END_Y), cakeEase)),
                                 R(0)>>,
                  rotation |-> <<R(0), Q(RMul(cakeEase, R(2))), R(0)>>],
        !.log = Append(@, WriteEv("cake"))]

CakeSegment(s, clampedElapsed) ==
  LET cakeProgress ==
        clamp(RDiv(clampedElapsed, R(CAKE_DESCENT_DURATION)), R(0), R(1))
      cakeEase == easeOutCubic(cakeProgress)
  IN [s EXCEPT
        !.cake = [position |-> <<R(0),
                                 Q(lerp(R(CAKE_START_Y), R(CAKE_END_Y), cakeEase)),
                                 R(0)>>,
                  rotation |-> <<R(0), Q(RMul(cakeEase, R(2))), R(0)>>],
        !.log = Append(@, WriteEv("cake"))]

\* Mutant: the table slides from elapsed 0, without its start offset.
TableSegment_FromZero(s, clampedElapsed) ==
  LET tableProgress ==
        clamp(RDiv(clampedElapsed, R(TABLE_SLIDE_DURATION)), R(0), R(1))
      tableEase == easeOutCubic(tableProgress)
      tableZ == lerp(R(TABLE_START_Z), R(TABLE_END_Z), tableEase)
  IN [s EXCEPT
        !.table = [position |-> <<R(0), R(0), Q(tableZ)>>,
                   rotation |-> Vec(0, 0, 0)],
        !.log = Append(@, WriteEv("table"))]

TableSegment(s, clampedElapsed) ==
  LET tableZ ==
        IF RLeq(R(TABLE_SLIDE_START), clampedElapsed)
        THEN LET tableProgress ==
                   clamp(RDiv(RSub(clampedElapsed, R(TABLE_SLIDE_START)),
                              R(TABLE_SLIDE_DURATION)), R(0), R(1))
                 tableEase == easeOutCubic(tableProgress)
             IN lerp(R(TABLE_START_Z), R(TABLE_END_Z), tableEase)
        ELSE R(TABLE_START_Z)
  IN [s EXCEPT
        !.table = [position |-> <<R(0), R(0), Q(tableZ)>>,
                   rotation |-> Vec(0, 0, 0)],
        !.log = Append(@, WriteEv("table"))]

\* Mutant: the candle appears only strictly after its start offset.
CandleSegment_Strict(s, clampedElapsed) ==
  IF RLess(R(CANDLE_DROP_START), clampedElapsed)
  THEN LET candleProgress ==
             clamp(RDiv(RSub(clampedElapsed, R(CANDLE_DROP_START)),
                        R(CANDLE_DROP_DURATION)), R(0), R(1))
           candleEase == easeOutCubic(candleProgress)
       IN [s EXCEPT
             !.candle.visible = TRUE,
             !.candle.position[2] =
               Q(lerp(R(CANDLE_START_Y), R(CANDLE_END_Y), candleEase)),
             !.log = Append(@, WriteEv("candle"))]
  ELSE [s EXCEPT
          !.candle = [position |-> Vec(0, CANDLE_START_Y, 0),
                      visible |-> FALSE],
          !.log = Append(@, WriteEv("candle"))]

CandleSegment(s, clampedElapsed) ==
  IF RLeq(R(CANDLE_DROP_START), clampedElapsed)
  THEN LET candleProgress ==
             clamp(RDiv(RSub(clampedElapsed, R(CANDLE_DROP_START)),
                        R(CANDLE_DROP_DURATION)), R(0), R(1))
           candleEase == easeOutCubic(candleProgress)
       IN [s EXCEPT
             !.candle.visible = TRUE,
             !.candle.position[2] =
               Q(lerp(R(CANDLE_START_Y), R(CANDLE_END_Y), candleEase)),
             !.log = Append(@, WriteEv("candle"))]
  ELSE [s EXCEPT
          !.candle = [position |-> Vec(0, CANDLE_START_Y, 0),
                      visible |-> FALSE],
          !.log = Append(@, WriteEv("candle"))]

FadeSegment(s, clampedElapsed) ==
  IF RLess(clampedElapsed, R(BACKGROUND_FADE_START))
  THEN emitEnvironmentProgress(emitBackgroundOpacity(s, R(1)), R(0))
  ELSE LET fadeProgress ==
             clamp(RDiv(RSub(clampedElapsed, R(BACKGROUND_FADE_START)),
                        R(BACKGROUND_FADE_DURATION)), R(0), R(1))
           eased == easeOutCubic(fadeProgress)
           backgroundOpacity == RSub(R(1), eased)
       IN emitEnvironmentProgress(
            emitBackgroundOpacity(s, backgroundOpacity),
            RSub(R(1), backgroundOpacity))

TerminalSnap(s) ==
  [s EXCEPT
     !.cake = [position |-> Vec(0, CAKE_END_Y, 0), rotation |-> Vec(0, 0, 0)],
     !.table.position = Vec(0, 0, TABLE_END_Z),
     !.candle = [position |-> Vec(0, CANDLE_END_Y, 0), visible |-> TRUE],
     !.log = @ \o <<WriteEv("cake"), WriteEv("table"), WriteEv("candle")>>]

\* Mutant: the terminal check compares with > and so never sees the clamped
\* elapsed time reach the total.
TerminalCheck_Strict(s, clampedElapsed) ==
  LET animationDone == RLess(R(totalAnimationTime), clampedElapsed)
  IN IF animationDone
     THEN LET a == TerminalSnap(s)
              b == emitBackgroundOpacity(a, R(0))
              c == emitEnvironmentProgress(b, R(1))
              d == [c EXCEPT !.hasCompletedRef = TRUE]
          IN IF ~d.completionNotifiedRef
             THEN [d EXCEPT !.completionNotifiedRef = TRUE,
                            !.log = Append(@, CompleteEv)]
             ELSE d
     ELSE s

\* Mutant: the terminal check marks the animation completed and leaves the
\* notification to the completed branch of the next frame.
TerminalCheck_NotifyLater(s, clampedElapsed) ==
  LET animationDone == RLeq(R(totalAnimationTime), clampedElapsed)
  IN IF animationDone
     THEN LET a == TerminalSnap(s)
              b == emitBackgroundOpacity(a, R(0))
              c == emitEnvironmentProgress(b, R(1))
          IN [c EXCEPT !.hasCompletedRef = TRUE]
     ELSE s

TerminalCheck(s, clampedElapsed) ==
  LET animationDone == RLeq(R(totalAnimationTime), clampedElapsed)
  IN IF animationDone
     THEN LET a == TerminalSnap(s)
              b == emitBackgroundOpacity(a, R(0))
              c == emitEnvironmentProgress(b, R(1))
              d == [c EXCEPT !.hasCompletedRef = TRUE]
          IN IF ~d.completionNotifiedRef
             THEN [d EXCEPT !.completionNotifiedRef = TRUE,
                            !.log = Append(@, CompleteEv)]
             ELSE d
     ELSE s

\* Mutant: the fade segment runs before the transform segments.
PlayingBranch_FadeFirst(s, t) ==
  LET s1 == StartClock(s, t)
      elapsed == t - s1.animationStartRef
      clampedElapsed == clamp(R(elapsed), R(0), R(totalAnimationTime))
      s2 == FadeSegment(s1, clampedElapsed)
      s3 == CakeSegment(s2, clampedElapsed)
      s4 == TableSegment(s3, clampedElapsed)
      s5 == CandleSegment(s4, clampedElapsed)
  IN TerminalCheck(s5, clampedElapsed)

PlayingBranch(s, t) ==
  LET s1 == StartClock(s, t)
      elapsed == t - s1.animationStartRef
      clampedElapsed == clamp(R(elapsed), R(0), R(totalAnimationTime))
      s2 == CakeSegment(s1, clampedElapsed)
      s3 == TableSegment(s2, clampedElapsed)
      s4 == CandleSegment(s3, clampedElapsed)
      s5 == FadeSegment(s4, clampedElapsed)
  IN TerminalCheck(s5, clampedElapsed)

\* Mutant: the frame callback lacks the completed short-circuit.
useFrame_NoShortCircuit(s, t, playing, attached) ==
  IF ~attached
  THEN s
  ELSE LET p == Priming(s)
       IN IF ~playing
          THEN PausedBranch(p)
          ELSE PlayingBranch(p, t)

\* The frame callback: state s, clock value t, the isPlaying prop, and
\* whether the three group refs are attached.
useFrame(s, t, playing, attached) ==
  IF ~attached
  THEN s
  ELSE LET p == Priming(s)
       IN IF ~playing
          THEN PausedBranch(p)
          ELSE IF p.hasCompletedRef
               THEN CompletedBranch(p)
               ELSE PlayingBranch(p, t)

Count(seq, ev) == Cardinality({i \in DOMAIN seq : seq[i] = ev})

\* ------------------------------------------------ App: text sequencers
SKIP_INTRO == FALSE
TYPED_CHAR_DELAY == 100
POST_TYPING_SCENE_DELAY == 1000
TERMINAL_CHAR_DELAY == 50
TERMINAL_LINE_DELAYS == <<800, 1000, 1200, 1000, 800, 600>>
\* TERMINAL_LINE_DELAYS[terminalLineIndex] ?? 800
DefaultLineDelay == 800

\* A line of n characters (UTF-16 code units); only its length and the
\* position of each character matter to the sequencers.
Line(n) == [i \in 1..n |-> 96 + i]

\* The lists the program ships, by the length of each line.
ShippedTypedLines ==
  <<Line(17), Line(3), Line(26), Line(3), Line(43), Line(3), Line(23)>>

ShippedTerminalLines ==
  <<Line(31), Line(25), Line(28), Line(3), Line(39), Line(4)>>

\* Every list of at most MaxLines lines, each empty or MaxLineLen long.
LineLists ==
  UNION {[1..n -> {Line(0), Line(MaxLineLen)}] : n \in 0..MaxLines}

\* lines[index] ?? "" with the code's zero-based index.
LineAt(lines, index) ==
  IF index < Len(lines) THEN lines[index + 1] ELSE <<>>

\* while (nextLineIndex < LINES.length && LINES[nextLineIndex].length === 0)
\*   nextLineIndex += 1
RECURSIVE SkipEmpty(_, _)
SkipEmpty(lines, nextLineIndex) ==
  IF nextLineIndex < Len(lines) /\ Len(lines[nextLineIndex + 1]) = 0
    THEN SkipEmpty(lines, nextLineIndex + 1)
    ELSE nextLineIndex

\* A pending timeout: the sequencer that set it, what its callback does,
\* the line and character indices its closure captured, its delay in ms,
\* and (history) whether a reset of its sequencer happened while it was
\* pending.
Timer(owner, kind, line, char, delay) ==
  [owner |-> owner, kind |-> kind, line |-> line, char |-> char,
   delay |-> delay, preReset |-> FALSE]

NoTimer == Timer("none", "none", 0, 0, 0)

\* Two records of the same timeout (the history flag aside).
SameTimer(a, b) == [a EXCEPT !.preReset = FALSE] = [b EXCEPT !.preReset = FALSE]

\* Mutant: the post-typing timeout is set without waiting for the lines.
IntroEffect_NoTypingGate(lines, started, lineIndex, charIndex, scene) ==
  IF ~started THEN NoTimer
  ELSE IF ~scene
    THEN Timer("intro", "scene", lineIndex, charIndex, POST_TYPING_SCENE_DELAY)
    ELSE NoTimer

\* Mutant: once the lines are typed the effect sets no further timeout.
IntroEffect_NoSceneDelay(lines, started, lineIndex, charIndex, scene) ==
  IF ~started \/ lineIndex >= Len(lines) THEN NoTimer
  ELSE Timer("intro", "typing", lineIndex, charIndex, TYPED_CHAR_DELAY)

\* The timeout the intro typing effect sets for the given state.
IntroEffect(lines, started, lineIndex, charIndex, scene) ==
  IF ~started THEN NoTimer
  ELSE IF lineIndex >= Len(lines)
    THEN IF ~scene
           THEN Timer("intro", "scene", lineIndex, charIndex,
                      POST_TYPING_SCENE_DELAY)
           ELSE NoTimer
    ELSE Timer("intro", "typing", lineIndex, charIndex, TYPED_CHAR_DELAY)

LineDelay(lineIndex) ==
  IF lineIndex < Len(TERMINAL_LINE_DELAYS)
    THEN TERMINAL_LINE_DELAYS[lineIndex + 1]
    ELSE DefaultLineDelay

\* Mutant: a line counts as finished only once the index is past its end.
TerminalEffect_CharPastEnd(lines, shown, lineIndex, charIndex, complete) ==
  IF ~shown \/ complete THEN NoTimer
  ELSE IF charIndex > Len(LineAt(lines, lineIndex))
    THEN Timer("terminal", "line", lineIndex, charIndex, LineDelay(lineIndex))
    ELSE Timer("terminal", "char", lineIndex, charIndex, TERMINAL_CHAR_DELAY)

\* The timeout the terminal typing effect sets for the given state.
TerminalEffect(lines, shown, lineIndex, charIndex, complete) ==
  IF ~shown \/ complete THEN NoTimer
  ELSE IF charIndex >= Len(LineAt(lines, lineIndex))
    THEN Timer("terminal", "line", lineIndex, charIndex, LineDelay(lineIndex))
    ELSE Timer("terminal", "char", lineIndex, charIndex, TERMINAL_CHAR_DELAY)

\* Mutant: the effect returns no cleanup.
ClearTimeout_Never(pending, handle) == pending

\* window.clearTimeout(handle): the timeout is dropped if still pending.
ClearTimeout(pending, handle) ==
  IF \E i \in 1..Len(pending) : SameTimer(pending[i], handle)
    THEN LET i == CHOOSE k \in 1..Len(pending) :
                    /\ SameTimer(pending[k], handle)
                    /\ \A j \in 1..(k - 1) : ~SameTimer(pending[j], handle)
         IN  SubSeq(pending, 1, i - 1) \o SubSeq(pending, i + 1, Len(pending))
    ELSE pending

\* An effect after a render: when a dependency changed, the previous run's
\* cleanup clears its timeout and the new run sets the timeout next; when
\* none changed the effect does not run.  Yields <<pending, handle>>.
RunEffect(pending, handle, changed, next) ==
  IF ~changed THEN <<pending, handle>>
  ELSE <<IF next = NoTimer
           THEN ClearTimeout(pending, handle)
           ELSE Append(ClearTimeout(pending, handle), next),
         next>>

\* pending without its i-th timeout (it fired).
Fired(pending, i) == SubSeq(pending, 1, i - 1) \o SubSeq(pending, i + 1, Len(pending))

\* History: a reset of the sequencer happens with these timeouts pending.
MarkReset(pending, owner) ==
  [i \in 1..Len(pending) |->
     IF pending[i].owner = owner
       THEN [pending[i] EXCEPT !.preReset = TRUE]
       ELSE pending[i]]

\* typedLines / terminalTypedLines: what each line shows.
TypedLinesOf(lines, complete, lineIndex, charIndex) ==
  IF Len(lines) = 0 THEN <<<<>>>>
  ELSE [k \in 1..Len(lines) |->
          IF complete \/ k - 1 < lineIndex THEN lines[k]
          ELSE IF k - 1 = lineIndex
            THEN SubSeq(lines[k], 1,
                        IF charIndex < Len(lines[k]) THEN charIndex
                                                     ELSE Len(lines[k]))
            ELSE <<>>]

typingComplete == currentLineIndex >= Len(TYPED_LINES)

typedLines ==
  TypedLinesOf(TYPED_LINES, typingComplete, currentLineIndex, currentCharIndex)

terminalTypedLines ==
  TypedLinesOf(TERMINAL_LINES, terminalTypingComplete, terminalLineIndex,
               terminalCharIndex)

\* Mutant: the scene plays only while the candle is lit.
isScenePlaying_WhileLit == hasStarted /\ sceneStarted /\ isCandleLit

isScenePlaying == hasStarted /\ sceneStarted

\* App's state after its first render, for the given line lists.
AppInit(typed, terminal) ==
  /\ TYPED_LINES = typed
  /\ TERMINAL_LINES = terminal
  /\ appMounted = FALSE
  /\ hasStarted = FALSE
  /\ currentLineIndex = 0
  /\ currentCharIndex = 0
  /\ sceneStarted = FALSE
  /\ hasAnimationCompleted = FALSE
  /\ isCandleLit = TRUE
  /\ fireworksActive = FALSE
  /\ showCameraModal = FALSE
  /\ terminalLineIndex = 0
  /\ terminalCharIndex = 0
  /\ terminalTypingComplete = FALSE
  /\ timers = <<>>
  /\ introHandle = NoTimer
  /\ terminalHandle = NoTimer
  /\ lastFired = NoTimer

\* ----------------------------------------------------------------- Init
SceneInit ==
  /\ clock = 0
  /\ isPlaying = FALSE
  /\ refsAttached = FALSE
  /\ effectRan = FALSE
  /\ cake = [position |-> Vec(0, 0, 0), rotation |-> Vec(0, 0, 0)]
  /\ table = [position |-> Vec(0, 0, 0), rotation |-> Vec(0, 0, 0)]
  /\ candle = [position |-> Vec(0, 0, 0), visible |-> TRUE]
  /\ animationStartRef = Null
  /\ hasPrimedRef = FALSE
  /\ hasCompletedRef = FALSE
  /\ completionNotifiedRef = FALSE
  /\ backgroundOpacityRef = R(1)
  /\ environmentProgressRef = R(0)
  /\ log = <<>>
  /\ lastOp = "init"
  /\ sessionCompletions = 0
  /\ completions = 0

Init == SceneInit /\ AppInit(ShippedTypedLines, ShippedTerminalLines)

\* -------------------------------------------------------------- actions
\* React commits the scene: the three <group ref=...> elements attach.
AttachRefs ==
  /\ ~refsAttached
  /\ refsAttached' = TRUE
  /\ log' = <<>>
  /\ lastOp' = "attach"
  /\ UNCHANGED <<clock, isPlaying, effectRan, cake, table, candle,
                 animationStartRef, hasPrimedRef, hasCompletedRef,
                 completionNotifiedRef, backgroundOpacityRef,
                 environmentProgressRef, sessionCompletions, completions>>
  /\ UNCHANGED appVars

\* The mount effect: delivers the current ref values to both consumers.
MountEffect ==
  /\ refsAttached
  /\ ~effectRan
  /\ effectRan' = TRUE
  /\ log' = <<<<"onBackgroundFadeChange", backgroundOpacityRef>>,
              <<"onEnvironmentProgressChange", environmentProgressRef>>>>
  /\ lastOp' = "effect"
  /\ UNCHANGED <<clock, isPlaying, refsAttached, cake, table, candle,
                 animationStartRef, hasPrimedRef, hasCompletedRef,
                 completionNotifiedRef, backgroundOpacityRef,
                 environmentProgressRef, sessionCompletions, completions>>
  /\ UNCHANGED appVars

\* One render frame, as far as the scene goes: the clock advances by dt and
\* the frame callback runs with the isPlaying prop equal to playing.
Frame(playing, dt) ==
    /\ clock + dt <= MaxClock
    /\ \E r \in {useFrame(State, clock + dt, playing, refsAttached)} :
          /\ clock' = clock + dt
          /\ isPlaying' = playing
          /\ cake' = r.cake
          /\ table' = r.table
          /\ candle' = r.candle
          /\ animationStartRef' = r.animationStartRef
          /\ hasPrimedRef' = r.hasPrimedRef
          /\ hasCompletedRef' = r.hasCompletedRef
          /\ completionNotifiedRef' = r.completionNotifiedRef
          /\ backgroundOpacityRef' = r.backgroundOpacityRef
          /\ environmentProgressRef' = r.environmentProgressRef
          /\ log' = r.log
          /\ lastOp' = IF refsAttached THEN "tick" ELSE "skip"
          /\ sessionCompletions' =
               IF ~playing THEN 0
               ELSE sessionCompletions + Count(r.log, CompleteEv)
          /\ completions' = completions + Count(r.log, CompleteEv)
    /\ UNCHANGED <<refsAttached, effectRan>>

\* One render frame of the scene on its own: App's state is not involved.
TickWith(playing, dt) ==
  /\ Frame(playing, dt)
  /\ UNCHANGED appVars

Tick == \E playing \in BOOLEAN, dt \in 0..MaxStep : TickWith(playing, dt)

Next == AttachRefs \/ MountEffect \/ Tick

Spec == Init /\ [][Next]_vars

\* ------------------------------------------- uninterrupted playback
\* isPlaying stays true: every frame runs with isPlaying = true.  A frame
\* may find the clock where the last one left it (StillTick) or advanced
\* (AdvanceTick).
StillTick == TickWith(TRUE, 0)

AdvanceTick == \E dt \in 1..MaxStep : TickWith(TRUE, dt)

NextPlay == AttachRefs \/ MountEffect \/ StillTick \/ AdvanceTick

\* The clock can move forward (up to the bound of the model).
ClockAdvances == \E c \in (clock + 1)..MaxClock : clock' = c

\* The render loop keeps calling the frame callback and the clock keeps
\* running: whenever the clock can still move forward, a frame eventually
\* sees it advanced.  Only AdvanceTick changes the clock, and it is enabled
\* exactly when clock < MaxClock, so this is weak fairness of AdvanceTick.
SpecPlay ==
  /\ Init
  /\ [][NextPlay]_vars
  /\ WF_clock(ClockAdvances)

\* ------------------------------------------------------ App: the actions
\* App mounts.  The SKIP_INTRO effect runs, then the intro effect of the
\* first render, whose closure has hasStarted = false: its reset branch.
\* Their state updates apply in order, and the intro effect runs again if
\* a dependency changed.
AppMount ==
  /\ ~appMounted
  /\ appMounted' = TRUE
  /\ hasStarted' = SKIP_INTRO
  /\ currentLineIndex' = 0
  /\ currentCharIndex' = 0
  /\ sceneStarted' = FALSE
  /\ isCandleLit' = TRUE
  /\ fireworksActive' = FALSE
  /\ hasAnimationCompleted' = FALSE
  /\ \E e \in {RunEffect(MarkReset(timers, "intro"), introHandle, SKIP_INTRO,
                         IntroEffect(TYPED_LINES, SKIP_INTRO, 0, 0, FALSE))} :
        /\ timers' = e[1]
        /\ introHandle' = e[2]
  /\ lastFired' = NoTimer
  /\ UNCHANGED <<TYPED_LINES, TERMINAL_LINES, showCameraModal,
                 terminalLineIndex, terminalCharIndex, terminalTypingComplete,
                 terminalHandle>>
  /\ UNCHANGED sceneVars

\* Mutant: the candle can be blown out as soon as the intro has started.
BlowsOut_WhenLit(completed, lit) == lit

\* if (hasAnimationCompleted && isCandleLit)
BlowsOut(completed, lit) == completed /\ lit

\* The Space key: starts the intro, or blows out the candle once the
\* animation has completed; any other press changes nothing.
SpaceKey ==
  /\ appMounted
  /\ IF ~hasStarted
       THEN /\ hasStarted' = TRUE
            /\ \E e \in {RunEffect(timers, introHandle, TRUE,
                                   IntroEffect(TYPED_LINES, TRUE,
                                               currentLineIndex,
                                               currentCharIndex,
                                               sceneStarted))} :
                  /\ timers' = e[1]
                  /\ introHandle' = e[2]
            /\ UNCHANGED <<isCandleLit, fireworksActive>>
       ELSE /\ IF BlowsOut(hasAnimationCompleted, isCandleLit)
                 THEN /\ isCandleLit' = FALSE
                      /\ fireworksActive' = TRUE
                 ELSE UNCHANGED <<isCandleLit, fireworksActive>>
            /\ UNCHANGED <<hasStarted, timers, introHandle>>
  /\ lastFired' = NoTimer
  /\ UNCHANGED <<TYPED_LINES, TERMINAL_LINES, appMounted, currentLineIndex,
                 currentCharIndex, sceneStarted, hasAnimationCompleted,
                 showCameraModal, terminalLineIndex, terminalCharIndex,
                 terminalTypingComplete, terminalHandle>>
  /\ UNCHANGED sceneVars

\* A timeout of the intro effect fires: the post-typing delay starts the
\* scene; the typing timeout reveals one character or moves to the next
\* line.  The effect then runs again if a dependency changed.
IntroTimeout ==
  \E i \in 1..Len(timers) :
    /\ timers[i].owner = "intro"
    /\ LET t == timers[i]
           currentLine == LineAt(TYPED_LINES, t.line)
           sceneNext == IF t.kind = "scene" THEN TRUE ELSE sceneStarted
           lineNext ==
             IF t.kind = "typing" /\ ~(t.char < Len(currentLine))
               THEN SkipEmpty(TYPED_LINES, t.line + 1)
               ELSE currentLineIndex
           charNext ==
             IF t.kind = "typing"
               THEN IF t.char < Len(currentLine) THEN currentCharIndex + 1
                                                 ELSE 0
               ELSE currentCharIndex
           changed == <<sceneNext, lineNext, charNext>>
                        # <<sceneStarted, currentLineIndex, currentCharIndex>>
       IN  /\ sceneStarted' = sceneNext
           /\ currentLineIndex' = lineNext
           /\ currentCharIndex' = charNext
           /\ \E e \in {RunEffect(Fired(timers, i), introHandle, changed,
                                  IntroEffect(TYPED_LINES, hasStarted,
                                              lineNext, charNext,
                                              sceneNext))} :
                 /\ timers' = e[1]
                 /\ introHandle' = e[2]
           /\ lastFired' = t
    /\ UNCHANGED <<TYPED_LINES, TERMINAL_LINES, appMounted, hasStarted,
                   hasAnimationCompleted, isCandleLit, fireworksActive,
                   showCameraModal, terminalLineIndex, terminalCharIndex,
                   terminalTypingComplete, terminalHandle>>
    /\ UNCHANGED sceneVars

\* The scene, while it plays, calls onAnimationComplete.
OnAnimationComplete ==
  /\ appMounted
  /\ isScenePlaying
  /\ hasAnimationCompleted' = TRUE
  /\ lastFired' = NoTimer
  /\ UNCHANGED <<TYPED_LINES, TERMINAL_LINES, appMounted, hasStarted,
                 currentLineIndex, currentCharIndex, sceneStarted,
                 isCandleLit, fireworksActive, showCameraModal,
                 terminalLineIndex, terminalCharIndex,
                 terminalTypingComplete, timers, introHandle,
                 terminalHandle>>
  /\ UNCHANGED sceneVars

\* The Take Photo button, rendered once the animation has completed (and
\* still in the document while the terminal is shown): resets and shows
\* the terminal.
handleTakePhoto ==
  /\ appMounted
  /\ hasAnimationCompleted
  /\ showCameraModal' = TRUE
  /\ terminalLineIndex' = 0
  /\ terminalCharIndex' = 0
  /\ terminalTypingComplete' = FALSE
  /\ \E e \in {RunEffect(MarkReset(timers, "terminal"), terminalHandle,
                         <<showCameraModal, terminalLineIndex,
                           terminalCharIndex, terminalTypingComplete>>
                           # <<TRUE, 0, 0, FALSE>>,
                         TerminalEffect(TERMINAL_LINES, TRUE, 0, 0, FALSE))} :
        /\ timers' = e[1]
        /\ terminalHandle' = e[2]
  /\ lastFired' = NoTimer
  /\ UNCHANGED <<TYPED_LINES, TERMINAL_LINES, appMounted, hasStarted,
                 currentLineIndex, currentCharIndex, sceneStarted,
                 hasAnimationCompleted, isCandleLit, fireworksActive,
                 introHandle>>
  /\ UNCHANGED sceneVars

\* Mutant: the terminal closes whether or not it has finished typing.
ClosesModal_Always(complete) == TRUE

\* if (terminalTypingComplete), in handleCloseModal and in the Escape
\* handler that calls it.
ClosesModal(complete) == complete

\* A try at closing the terminal while it is shown: the Escape key, or the
\* CLOSE button (rendered once the typing is complete).  It hides and
\* resets the terminal once the typing is complete and does nothing before.
handleCloseModal ==
  /\ appMounted
  /\ showCameraModal
  /\ IF ClosesModal(terminalTypingComplete)
       THEN /\ showCameraModal' = FALSE
            /\ terminalLineIndex' = 0
            /\ terminalCharIndex' = 0
            /\ terminalTypingComplete' = FALSE
            /\ \E e \in {RunEffect(MarkReset(timers, "terminal"),
                                   terminalHandle, TRUE,
                                   TerminalEffect(TERMINAL_LINES, FALSE, 0, 0,
                                                  FALSE))} :
                  /\ timers' = e[1]
                  /\ terminalHandle' = e[2]
       ELSE UNCHANGED <<showCameraModal, terminalLineIndex,
                        terminalCharIndex, terminalTypingComplete, timers,
                        terminalHandle>>
  /\ lastFired' = NoTimer
  /\ UNCHANGED <<TYPED_LINES, TERMINAL_LINES, appMounted, hasStarted,
                 currentLineIndex, currentCharIndex, sceneStarted,
                 hasAnimationCompleted, isCandleLit, fireworksActive,
                 introHandle>>
  /\ UNCHANGED sceneVars

\* A timeout of the terminal effect fires: the line delay moves to the
\* next non-empty line or completes the typing; the character timeout
\* reveals one character.  The effect then runs again if a dependency
\* changed.
TerminalTimeout ==
  \E i \in 1..Len(timers) :
    /\ timers[i].owner = "terminal"
    /\ LET t == timers[i]
           nextLineIndex == SkipEmpty(TERMINAL_LINES, t.line + 1)
           completeNext ==
             IF t.kind = "line" /\ nextLineIndex >= Len(TERMINAL_LINES)
               THEN TRUE
               ELSE terminalTypingComplete
           lineNext ==
             IF t.kind = "line" /\ nextLineIndex < Len(TERMINAL_LINES)
               THEN nextLineIndex
               ELSE terminalLineIndex
           charNext ==
             IF t.kind = "line"
               THEN IF nextLineIndex < Len(TERMINAL_LINES)
                      THEN 0
                      ELSE terminalCharIndex
               ELSE terminalCharIndex + 1
           changed == <<lineNext, charNext, completeNext>>
                        # <<terminalLineIndex, terminalCharIndex,
                            terminalTypingComplete>>
       IN  /\ terminalLineIndex' = lineNext
           /\ terminalCharIndex' = charNext
           /\ terminalTypingComplete' = completeNext
           /\ \E e \in {RunEffect(Fired(timers, i), terminalHandle, changed,
                                  TerminalEffect(TERMINAL_LINES,
                                                 showCameraModal, lineNext,
                                                 charNext, completeNext))} :
                 /\ timers' = e[1]
                 /\ terminalHandle' = e[2]
           /\ lastFired' = t
    /\ UNCHANGED <<TYPED_LINES, TERMINAL_LINES, appMounted, hasStarted,
                   currentLineIndex, currentCharIndex, sceneStarted,
                   hasAnimationCompleted, isCandleLit, fireworksActive,
                   showCameraModal, introHandle>>
    /\ UNCHANGED sceneVars

NextApp ==
  \/ AppMount
  \/ SpaceKey
  \/ IntroTimeout
  \/ OnAnimationComplete
  \/ handleTakePhoto
  \/ handleCloseModal
  \/ TerminalTimeout

\* App with any line lists: the shipped ones and every bounded list.
InitApp ==
  /\ SceneInit
  /\ \E typed \in LineLists \cup {ShippedTypedLines},
        terminal \in LineLists \cup {ShippedTerminalLines} :
        AppInit(typed, terminal)

SpecApp == InitApp /\ [][NextApp]_vars

\* --------------------------------------------- App with its scene
\* The frame intervals taken when App and its scene run together: a frame
\* finds the clock unchanged or MaxStep further.
FrameSteps == {0, MaxStep}

\* One render frame of the scene App renders: isPlaying is isScenePlaying,
\* and onAnimationComplete is () => setHasAnimationCompleted(true).
AppFrame ==
  \E dt \in FrameSteps :
    /\ Frame(isScenePlaying, dt)
    /\ hasAnimationCompleted' =
         (hasAnimationCompleted \/ Count(log', CompleteEv) > 0)
    /\ lastFired' = NoTimer
    /\ UNCHANGED <<TYPED_LINES, TERMINAL_LINES, appMounted, hasStarted,
                   currentLineIndex, currentCharIndex, sceneStarted,
                   isCandleLit, fireworksActive, showCameraModal,
                   terminalLineIndex, terminalCharIndex,
                   terminalTypingComplete, timers, introHandle,
                   terminalHandle>>

NextWhole ==
  \/ AttachRefs
  \/ MountEffect
  \/ AppMount
  \/ SpaceKey
  \/ IntroTimeout
  \/ AppFrame
  \/ handleTakePhoto
  \/ handleCloseModal
  \/ TerminalTimeout

\* The program as shipped: App, its two sequencers and its scene.
SpecWhole == Init /\ [][NextWhole]_vars

\* A frame of the program finds the clock further on.
FrameAdvances ==
  \E dt \in FrameSteps \ {0} :
    /\ clock + dt <= MaxClock
    /\ clock' = clock + dt

\* Timers and frames keep firing: a pending intro timeout eventually
\* fires, the scene's refs eventually attach, and as long as the clock
\* bound allows a frame eventually sees the clock advanced (only AppFrame
\* changes the clock, and it can take every step FrameAdvances describes).
SpecWholeLive ==
  /\ Init
  /\ [][NextWhole]_vars
  /\ WF_vars(IntroTimeout)
  /\ WF_vars(AttachRefs)
  /\ WF_clock(FrameAdvances)

\* ------------------------------------------------------ claim vocabulary
\* The state was produced by a frame that passed the null-ref guard.
RanTick == lastOp = "tick"
\* ... with isPlaying = true (the playing or the completed branch ran).
PlayingTick == RanTick /\ isPlaying
\* ... with isPlaying = false (the paused branch ran).
PausedTick == RanTick /\ ~isPlaying
\* Elapsed time of the current play session, meaningful after a playing tick.
Elapsed == clock - animationStartRef

StartPose ==
  /\ cake = [position |-> Vec(0, CAKE_START_Y, 0), rotation |-> Vec(0, 0, 0)]
  /\ table = [position |-> Vec(0, 0, TABLE_START_Z), rotation |-> Vec(0, 0, 0)]
  /\ candle = [position |-> Vec(0, CANDLE_START_Y, 0), visible |-> FALSE]

Has(seq, ev) == \E i \in DOMAIN seq : seq[i] = ev
IsWrite(ev) == ev[1] = "write"
IsEmit(ev) == ev[1] \in {"onBackgroundFadeChange", "onEnvironmentProgressChange"}

\* ------------------------------------------------------------------- C1
\* C1: in every play session the completion callback has been invoked
\* exactly once from the playing tick on which elapsed reaches
\* totalAnimationTime, not before it, and never a second time on the playing
\* ticks that follow.
C1_CompletionOncePerSession ==
  /\ sessionCompletions <= 1
  /\ (PlayingTick /\ Elapsed >= totalAnimationTime) => sessionCompletions = 1
  /\ (PlayingTick /\ Elapsed < totalAnimationTime) => sessionCompletions = 0

\* A second play session has completed and a further playing tick arrived.
C1_Witness ==
  /\ PlayingTick
  /\ completions = 2
  /\ sessionCompletions = 1
  /\ Elapsed > totalAnimationTime
  /\ ~Has(log, CompleteEv)

\* ------------------------------------------------------------------- C2
\* C2: at and after the playing tick whose elapsed time is at least
\* totalAnimationTime, the values last delivered to the consumers are
\* background opacity 0 and environment progress 1.
C2_FinalSignalsDelivered ==
  (PlayingTick /\ Elapsed >= totalAnimationTime)
    => (backgroundOpacityRef = R(0) /\ environmentProgressRef = R(1))

\* ------------------------------------------------------------------- C3
\* C3: after any tick with isPlaying = false the last delivered values are
\* opacity 1 and progress 0, animationStartRef is unset, and hasCompleted
\* and completionNotified are false.
C3_PausedResets ==
  PausedTick =>
    /\ backgroundOpacityRef = R(1)
    /\ environmentProgressRef = R(0)
    /\ animationStartRef = Null
    /\ ~hasCompletedRef
    /\ ~completionNotifiedRef

\* A pause right after completion: the end pose is still on the scene and the
\* paused tick delivered the rewound signals.
C3_Witness ==
  /\ PausedTick
  /\ completions = 1
  /\ candle = [position |-> Vec(0, CANDLE_END_Y, 0), visible |-> TRUE]
  /\ Has(log, <<"onBackgroundFadeChange", R(1)>>)
  /\ Has(log, <<"onEnvironmentProgressChange", R(0)>>)

\* ------------------------------------------------------------------- C4
\* C4: a tick with isPlaying = false changes no scene transform once priming
\* has happened, and a paused first tick leaves exactly the primed start pose.
C4_PausedTickKeepsTransforms ==
  [][(lastOp' = "tick" /\ ~isPlaying') =>
       IF hasPrimedRef
       THEN cake' = cake /\ table' = table /\ candle' = candle
       ELSE StartPose']_vars

\* A pause in the middle of the cake's descent: the cake hangs between its
\* start and end height.
C4_Witness ==
  /\ PausedTick
  /\ RLess(R(CAKE_END_Y), cake.position[2])
  /\ RLess(cake.position[2], R(CAKE_START_Y))

\* ------------------------------------------------------------------- C5
\* C5: the last emitted background opacity and the last emitted environment
\* progress always sum to exactly 1, and they are (1, 0) after every playing
\* tick before the fade window.
C5_SignalsComplementary ==
  /\ REq(RAdd(backgroundOpacityRef, environmentProgressRef), R(1))
  /\ (PlayingTick /\ Elapsed < BACKGROUND_FADE_START)
       => (backgroundOpacityRef = R(1) /\ environmentProgressRef = R(0))

\* A playing tick inside the fade window that delivered a progress value
\* strictly between 0 and 1.
C5_Witness ==
  /\ PlayingTick
  /\ Elapsed > BACKGROUND_FADE_START
  /\ Elapsed < BACKGROUND_FADE_END
  /\ RLess(R(0), backgroundOpacityRef)
  /\ RLess(backgroundOpacityRef, R(1))
  /\ Has(log, <<"onEnvironmentProgressChange", environmentProgressRef>>)

\* ------------------------------------------------------------------- C6
Deliveries(seq, callback) == SelectSeq(seq, LAMBDA ev : ev[1] = callback)

\* Every delivered value lies in [0, 1] and differs by more than the deadband
\* from the value delivered before it (prev for the first one).
DeadbandChain(prev, d) ==
  \A i \in DOMAIN d :
    /\ RLeq(R(0), d[i][2]) /\ RLeq(d[i][2], R(1))
    /\ RLess(Deadband, RAbs(RSub(d[i][2], IF i = 1 THEN prev ELSE d[i - 1][2])))

LastDelivered(prev, d) == IF d = <<>> THEN prev ELSE d[Len(d)][2]

\* One step obeys the deadband rule for both signals: each callback of the
\* step exceeds the deadband, and the last-emitted value is the last value
\* delivered, or unchanged when the step delivered nothing.
DeadbandRule ==
  LET bg == Deliveries(log', "onBackgroundFadeChange")
      env == Deliveries(log', "onEnvironmentProgressChange")
  IN /\ DeadbandChain(backgroundOpacityRef, bg)
     /\ DeadbandChain(environmentProgressRef, env)
     /\ backgroundOpacityRef' = LastDelivered(backgroundOpacityRef, bg)
     /\ environmentProgressRef' = LastDelivered(environmentProgressRef, env)

\* C6 as stated: the consumer callbacks are invoked only on a change of more
\* than 0.005 from the previously emitted value, by whatever step.
C6_OnlyDeadbandExceeding == [][DeadbandRule]_vars

\* C6 as amended: frame ticks obey the deadband rule; the mount effect
\* delivers the current last-emitted values once, unconditionally, and leaves
\* them unchanged.
C6_DeadbandOnTicks ==
  [][/\ lastOp' = "tick" => DeadbandRule
     /\ lastOp' = "effect" =>
          /\ log' = <<<<"onBackgroundFadeChange", backgroundOpacityRef>>,
                      <<"onEnvironmentProgressChange", environmentProgressRef>>>>
          /\ backgroundOpacityRef' = backgroundOpacityRef
          /\ environmentProgressRef' = environmentProgressRef
     /\ lastOp' \notin {"tick", "effect"} =>
          /\ log' = <<>>
          /\ backgroundOpacityRef' = backgroundOpacityRef
          /\ environmentProgressRef' = environmentProgressRef]_vars

\* The terminal tick computed opacity 0 while the last emitted value was
\* 0.001: within the deadband, so no callback and the value stays.
C6_Witness ==
  /\ PlayingTick
  /\ hasCompletedRef
  /\ Has(log, CompleteEv)
  /\ backgroundOpacityRef = Norm(1, 1000)
  /\ Deliveries(log, "onBackgroundFadeChange") = <<>>

\* ------------------------------------------------------------------- C7
\* C7: totalAnimationTime is 5.2 s, and after the playing tick on which the
\* clamped elapsed time reaches it the cake is at (0, endY, 0), the table at
\* (0, 0, endZ), the candle visible at (0, endY, 0) and hasCompleted is true.
C7_EndPose ==
  /\ totalAnimationTime = 52
  /\ (PlayingTick /\ Elapsed >= totalAnimationTime) =>
       /\ cake.position = Vec(0, CAKE_END_Y, 0)
       /\ table.position = Vec(0, 0, TABLE_END_Z)
       /\ candle = [position |-> Vec(0, CANDLE_END_Y, 0), visible |-> TRUE]
       /\ hasCompletedRef

\* The terminal tick itself, reached at exactly elapsed = totalAnimationTime.
C7_Witness ==
  /\ PlayingTick
  /\ Elapsed = totalAnimationTime
  /\ Has(log, CompleteEv)
  /\ cake.rotation = Vec(0, 0, 0)

\* ------------------------------------------------------------------- C8
NoWrites(seq) == \A i \in DOMAIN seq : ~IsWrite(seq[i])

\* C8: once hasCompleted is true, a tick with isPlaying = true keeps it true
\* and writes no transform; a tick with isPlaying = false clears it, and no
\* other step does.
C8_CompletedIsSticky ==
  [][hasCompletedRef =>
       /\ (lastOp' = "tick" /\ isPlaying') =>
            /\ hasCompletedRef'
            /\ NoWrites(log')
            /\ cake' = cake /\ table' = table /\ candle' = candle
       /\ (lastOp' = "tick" /\ ~isPlaying') => ~hasCompletedRef'
       /\ ~hasCompletedRef' => (lastOp' = "tick" /\ ~isPlaying')]_vars

\* A playing tick served by the completed branch: nothing is logged.
C8_Witness ==
  /\ PlayingTick
  /\ hasCompletedRef
  /\ completionNotifiedRef
  /\ log = <<>>

\* ------------------------------------------------------------------- C9
Rank(ev) == IF IsWrite(ev) THEN 0 ELSE IF IsEmit(ev) THEN 1 ELSE 2

Ordered(seq) ==
  \A i, j \in DOMAIN seq : i < j => Rank(seq[i]) <= Rank(seq[j])

\* C9 as stated: within one frame tick all transform writes precede every
\* signal emission and all emissions precede the completion callback.
C9_WritesEmitsComplete == RanTick => Ordered(log)

\* C9 as amended: in every frame tick the completion callback comes after
\* every transform write and every emission of that tick, and writes precede
\* emissions on every tick but the terminal one, whose end-pose snap follows
\* the fade segment's emission.
C9_CompletionLast ==
  RanTick =>
    /\ \A i \in DOMAIN log : log[i] = CompleteEv => i = Len(log)
    /\ ~Has(log, CompleteEv) => Ordered(log)

\* A terminal tick whose fade-segment emission was delivered before the snap.
C9_Witness ==
  /\ PlayingTick
  /\ Has(log, CompleteEv)
  /\ \E i, j \in DOMAIN log : i < j /\ IsEmit(log[i]) /\ IsWrite(log[j])

\* ------------------------------------------------------------------ C10
\* C10: within a play session the candle is invisible and at its start
\* position after every playing tick with elapsed < CANDLE_DROP_START,
\* visible after every playing tick with elapsed >= CANDLE_DROP_START, and a
\* playing tick of the session never hides a visible candle.
C10_CandleVisibility ==
  /\ [](PlayingTick =>
          IF Elapsed < CANDLE_DROP_START
          THEN candle = [position |-> Vec(0, CANDLE_START_Y, 0),
                         visible |-> FALSE]
          ELSE candle.visible)
  /\ [][(animationStartRef # Null /\ candle.visible
          /\ lastOp' = "tick" /\ isPlaying') => candle'.visible]_vars

\* The playing tick at exactly elapsed = CANDLE_DROP_START: the candle has
\* just become visible, still at its start height.
C10_Witness ==
  /\ PlayingTick
  /\ Elapsed = CANDLE_DROP_START
  /\ candle = [position |-> Vec(0, CANDLE_START_Y, 0), visible |-> TRUE]

\* ------------------------------------------------------------------ C11
WriteCount(seq) == Cardinality({i \in DOMAIN seq : IsWrite(seq[i])})

InitialPose ==
  /\ cake = [position |-> Vec(0, 0, 0), rotation |-> Vec(0, 0, 0)]
  /\ table = [position |-> Vec(0, 0, 0), rotation |-> Vec(0, 0, 0)]
  /\ candle = [position |-> Vec(0, 0, 0), visible |-> TRUE]

\* The transform writes a frame makes apart from priming: the three segment
\* writes of a playing frame, and the three snap writes of the terminal one.
BranchWrites ==
  IF ~isPlaying' \/ hasCompletedRef THEN 0
  ELSE IF hasCompletedRef' THEN 6 ELSE 3

\* C11: priming happens on the first frame that passes the null-ref guard,
\* whether isPlaying is true or false; it never happens again (after pause,
\* resume or completion a frame makes only its branch's writes); and no
\* transform is written before it: its three writes open the first frame's
\* log and the scene is untouched until then.
C11_PrimedOnceFirst ==
  /\ [](~hasPrimedRef => (InitialPose /\ ~RanTick))
  /\ [][/\ hasPrimedRef => hasPrimedRef'
        /\ lastOp' = "tick" =>
             /\ hasPrimedRef'
             /\ WriteCount(log') =
                  BranchWrites + (IF hasPrimedRef THEN 0 ELSE 3)
             /\ ~hasPrimedRef =>
                  SubSeq(log', 1, 3) =
                    <<WriteEv("cake"), WriteEv("table"), WriteEv("candle")>>
             /\ (~hasPrimedRef /\ ~isPlaying') => StartPose'
        /\ lastOp' # "tick" => (hasPrimedRef' = hasPrimedRef)]_vars

\* The first frame arrived with isPlaying = false, after the clock had been
\* running, and primed the scene.
C11_Witness ==
  /\ PausedTick
  /\ clock > 0
  /\ StartPose
  /\ log = <<WriteEv("cake"), WriteEv("table"), WriteEv("candle")>>

\* ------------------------------------------------------------------ C12
\* C12: the first playing tick of each play session sets animationStartRef to
\* the current clock time, so elapsed is 0 whatever the clock value and the
\* scene is back at its start pose; the later playing ticks of the session
\* keep that start time.
C12_SessionClockRestarts ==
  [][(lastOp' = "tick" /\ isPlaying') =>
       IF animationStartRef = Null
       THEN animationStartRef' = clock' /\ StartPose'
       ELSE animationStartRef' = animationStartRef]_vars

\* A resume after a completed session: elapsed is 0 again at a late clock
\* value and the scene is back at the start pose.
C12_Witness ==
  /\ PlayingTick
  /\ completions = 1
  /\ clock >= totalAnimationTime
  /\ Elapsed = 0
  /\ StartPose

\* ------------------------------------------------------------------ C13
\* C13: within a play session cake.y never increases from one playing tick
\* to the next, is startY at elapsed 0 and is endY from the tick on which
\* elapsed reaches totalAnimationTime.
C13_CakeDescends ==
  /\ [](PlayingTick =>
          /\ Elapsed = 0 => cake.position[2] = R(CAKE_START_Y)
          /\ Elapsed >= totalAnimationTime => cake.position[2] = R(CAKE_END_Y))
  /\ [][(animationStartRef # Null /\ lastOp' = "tick" /\ isPlaying') =>
          RLeq(cake'.position[2], cake.position[2])]_vars

\* A playing tick in the middle of the descent, the cake between the two
\* heights.
C13_Witness ==
  /\ PlayingTick
  /\ Elapsed > 0
  /\ Elapsed < CAKE_DESCENT_DURATION
  /\ RLess(R(CAKE_END_Y), cake.position[2])
  /\ RLess(cake.position[2], R(CAKE_START_Y))

\* ------------------------------------------------------------------ C14
\* C14: after every playing tick with elapsed < TABLE_SLIDE_START the table's
\* z is startZ, and after the tick with elapsed = totalAnimationTime it is
\* endZ.
C14_TableSlide ==
  PlayingTick =>
    /\ Elapsed < TABLE_SLIDE_START => table.position[3] = R(TABLE_START_Z)
    /\ Elapsed = totalAnimationTime => table.position[3] = R(TABLE_END_Z)

\* The last playing tick before the slide starts, well into the cake's
\* descent.
C14_Witness ==
  /\ PlayingTick
  /\ Elapsed = TABLE_SLIDE_START - 1
  /\ table.position = Vec(0, 0, TABLE_START_Z)
  /\ RLess(cake.position[2], R(CAKE_START_Y))

\* ------------------------------------------------------------------ C20
\* The background opacity the last frame computed, before the deadband: 1 in
\* the paused branch, the eased fade value of the session's elapsed time
\* otherwise.
ComputedOpacity ==
  IF animationStartRef = Null
  THEN R(1)
  ELSE LET clampedElapsed == clamp(R(Elapsed), R(0), R(totalAnimationTime))
           fadeProgress ==
             clamp(RDiv(RSub(clampedElapsed, R(BACKGROUND_FADE_START)),
                        R(BACKGROUND_FADE_DURATION)), R(0), R(1))
       IN IF RLess(clampedElapsed, R(BACKGROUND_FADE_START))
          THEN R(1)
          ELSE Q(RSub(R(1), easeOutCubic(fadeProgress)))

\* C20 as stated, for every state in which the controller has written the
\* scene: a visible candle implies the cake at endY, the table at endZ and a
\* computed background opacity of 0.
C20_CandleAfterAll ==
  (hasPrimedRef /\ candle.visible) =>
    /\ cake.position[2] = R(CAKE_END_Y)
    /\ table.position[3] = R(TABLE_END_Z)
    /\ ComputedOpacity = R(0)

\* C20 as amended: once primed, a visible candle implies the cake at endY and
\* the table at endZ in every state, and a computed background opacity of 0
\* in every state of a play session (after a playing tick and before the
\* next pause); a paused tick leaves the candle visible and computes
\* opacity 1.
C20_CandleAfterAllInSession ==
  (hasPrimedRef /\ candle.visible) =>
    /\ cake.position[2] = R(CAKE_END_Y)
    /\ table.position[3] = R(TABLE_END_Z)
    /\ animationStartRef # Null => ComputedOpacity = R(0)

\* The playing tick on which the candle appears: the cake and table have
\* landed and the fade has just ended.
C20_Witness ==
  /\ PlayingTick
  /\ Elapsed = CANDLE_DROP_START
  /\ candle.visible
  /\ ~hasCompletedRef
  /\ backgroundOpacityRef = R(0)

\* ------------------------------------------------------------------ C15
\* C15: while isPlaying stays true and the clock keeps advancing, every play
\* session eventually reaches the completed state with the completion
\* notification delivered (for every session that starts early enough for
\* totalAnimationTime to fit under the clock bound).
C15_EventuallyCompleted ==
  (animationStartRef # Null
     /\ animationStartRef + totalAnimationTime <= MaxClock)
    ~> (hasCompletedRef /\ completionNotifiedRef /\ sessionCompletions = 1)

\* A session that started after the clock had been running has completed.
C15_Witness ==
  /\ PlayingTick
  /\ animationStartRef > 0
  /\ animationStartRef + totalAnimationTime <= MaxClock
  /\ hasCompletedRef
  /\ completionNotifiedRef
  /\ completions = 1

\* ------------------------------------------------------------------ C16
\* The lines a timeout of the given sequencer works on.
LinesOf(owner) == IF owner = "intro" THEN TYPED_LINES ELSE TERMINAL_LINES

\* The index is past the list or on a line that has characters.
OnTextOrPastEnd(lines, index) ==
  index < Len(lines) => Len(lines[index + 1]) > 0

\* From index from the sequencer went to index to: forward, over empty
\* lines only, to a line with characters or past the end of the list.
AdvancedOverEmpty(lines, from, to) ==
  /\ to > from
  /\ to <= Len(lines)
  /\ \A k \in (from + 1)..(to - 1) : Len(lines[k + 1]) = 0
  /\ OnTextOrPastEnd(lines, to)

\* The typing timeout that fired found its line fully revealed.
FiredOnRevealedLine ==
  /\ lastFired'.kind \in {"typing", "line"}
  /\ ~(lastFired'.char < Len(LineAt(LinesOf(lastFired'.owner),
                                    lastFired'.line)))

\* C16: for any list of lines, a sequencer whose current line is fully
\* revealed goes to the next non-empty line, or to typing-complete if none
\* remains; while a sequencer runs its line index never rests on a
\* zero-length line, and no timeout is ever pending on an empty line.
C16_NoDelayOnEmptyLine ==
  /\ [](/\ hasStarted => OnTextOrPastEnd(TYPED_LINES, currentLineIndex)
        /\ (showCameraModal /\ ~terminalTypingComplete)
             => OnTextOrPastEnd(TERMINAL_LINES, terminalLineIndex)
        /\ \A i \in 1..Len(timers) :
             timers[i].kind \in {"typing", "line", "char"}
               => OnTextOrPastEnd(LinesOf(timers[i].owner), timers[i].line))
  /\ [][FiredOnRevealedLine =>
          IF lastFired'.owner = "intro"
            THEN AdvancedOverEmpty(TYPED_LINES, currentLineIndex,
                                   currentLineIndex')
            ELSE \/ /\ terminalTypingComplete'
                    /\ \A k \in (terminalLineIndex + 1)..(Len(TERMINAL_LINES) - 1) :
                         Len(TERMINAL_LINES[k + 1]) = 0
                 \/ /\ ~terminalTypingComplete'
                    /\ terminalLineIndex' < Len(TERMINAL_LINES)
                    /\ AdvancedOverEmpty(TERMINAL_LINES, terminalLineIndex,
                                         terminalLineIndex')]_vars

\* ------------------------------------------------------------------ C17
\* Every intro line is shown in full.
AllLinesTyped ==
  /\ typingComplete
  /\ typedLines = IF Len(TYPED_LINES) = 0 THEN <<<<>>>> ELSE TYPED_LINES

\* C17: the scene plays (isScenePlaying = hasStarted and sceneStarted) only
\* after the user started the intro, every intro line was fully typed and
\* the post-typing delay timeout fired: sceneStarted is never true while
\* typing is incomplete, and it becomes true only by that timeout firing
\* with the intro started and the typing complete.
C17_SceneAfterTyping ==
  /\ [](sceneStarted => hasStarted /\ AllLinesTyped)
  /\ [][(sceneStarted' /\ ~sceneStarted) =>
          /\ hasStarted
          /\ AllLinesTyped
          /\ lastFired'.owner = "intro"
          /\ lastFired'.kind = "scene"
          /\ lastFired'.delay = POST_TYPING_SCENE_DELAY]_vars

\* The shipped intro has been typed and its post-typing timeout has just
\* started the scene.
C17_Witness ==
  /\ TYPED_LINES = ShippedTypedLines
  /\ isScenePlaying
  /\ lastFired.kind = "scene"
  /\ currentLineIndex = Len(TYPED_LINES)

\* ------------------------------------------------------------------ C18
RECURSIVE VisibleChars(_)
\* The number of characters the given typed lines show.
VisibleChars(shown) ==
  IF shown = <<>> THEN 0 ELSE Len(Head(shown)) + VisibleChars(Tail(shown))

\* The sequencer's indices are in range and the typed lines have the shape
\* the indices describe.
Revealed(lines, shown, lineIndex, charIndex) ==
  /\ 0 <= charIndex
  /\ charIndex <= Len(LineAt(lines, lineIndex))
  /\ \A k \in 1..Len(lines) :
       /\ k - 1 < lineIndex => shown[k] = lines[k]
       /\ k - 1 = lineIndex => shown[k] = SubSeq(lines[k], 1, charIndex)
       /\ k - 1 > lineIndex => shown[k] = <<>>

\* C18: in every reachable state, for both sequencers, 0 <= charIndex <=
\* length of the current line, every line before the current one is fully
\* visible, the current line shows exactly its first charIndex characters
\* and every later line is empty; and each firing of a sequencer's timeout
\* reveals at most one more character, on the current line.
C18_OneCharacterAtATime ==
  /\ [](/\ Revealed(TYPED_LINES, typedLines, currentLineIndex,
                    currentCharIndex)
        /\ Revealed(TERMINAL_LINES, terminalTypedLines, terminalLineIndex,
                    terminalCharIndex))
  /\ [][lastFired' # NoTimer =>
          /\ VisibleChars(typedLines') - VisibleChars(typedLines) \in {0, 1}
          /\ VisibleChars(terminalTypedLines')
               - VisibleChars(terminalTypedLines) \in {0, 1}
          /\ VisibleChars(typedLines') > VisibleChars(typedLines) =>
               /\ currentLineIndex' = currentLineIndex
               /\ currentCharIndex' = currentCharIndex + 1
          /\ VisibleChars(terminalTypedLines')
               > VisibleChars(terminalTypedLines) =>
               /\ terminalLineIndex' = terminalLineIndex
               /\ terminalCharIndex' = terminalCharIndex + 1]_vars

\* The terminal's character timeout has just revealed the first character
\* of its third line, the second line being empty and the first typed.
C18_Witness ==
  /\ showCameraModal
  /\ lastFired.owner = "terminal"
  /\ lastFired.kind = "char"
  /\ Len(TERMINAL_LINES) = 3
  /\ Len(TERMINAL_LINES[1]) > 0
  /\ Len(TERMINAL_LINES[2]) = 0
  /\ terminalLineIndex = 2
  /\ terminalCharIndex = 1
  /\ terminalTypedLines = <<TERMINAL_LINES[1], <<>>, SubSeq(TERMINAL_LINES[3], 1, 1)>>

\* ------------------------------------------------------------------ C19
\* The pending timeouts of one sequencer.
Pending(owner) == SelectSeq(timers, LAMBDA t : t.owner = owner)

\* C19: each text sequencer has at most one pending timeout at any time,
\* and a timeout set before a reset of its sequencer (intro reset while not
\* started, Take Photo, modal close) is cleared by the reset: it neither
\* stays pending nor fires afterwards.
C19_TimersClearedOnReset ==
  /\ Len(Pending("intro")) <= 1
  /\ Len(Pending("terminal")) <= 1
  /\ \A i \in 1..Len(timers) : ~timers[i].preReset
  /\ ~lastFired.preReset

\* The timeout the sequencer's effect sets for the current state.
EffectNow(owner) ==
  IF owner = "intro"
    THEN IntroEffect(TYPED_LINES, hasStarted, currentLineIndex,
                     currentCharIndex, sceneStarted)
    ELSE TerminalEffect(TERMINAL_LINES, showCameraModal, terminalLineIndex,
                        terminalCharIndex, terminalTypingComplete)

\* C19 (amended): each text sequencer has at most one pending timeout, and
\* every pending timeout is the one its effect sets for the current state:
\* a reset that changes the sequencer's state clears the timeout set
\* before it, and a timeout that stays pending across a reset (Take Photo
\* pressed while the terminal is shown at line 0, character 0) captured
\* exactly the state the reset produces.
C19_NoStaleTimeout ==
  /\ Len(Pending("intro")) <= 1
  /\ Len(Pending("terminal")) <= 1
  /\ \A i \in 1..Len(timers) :
       SameTimer(timers[i], EffectNow(timers[i].owner))

\* Take Photo was pressed with the terminal's first timeout pending, and
\* the timeout is still pending.
C19_Witness ==
  /\ showCameraModal
  /\ Len(timers) = 1
  /\ timers[1].owner = "terminal"
  /\ timers[1].preReset

\* ------------------------------------------------------------------ C21
\* C21: at the end of every tick hasCompletedRef and completionNotifiedRef
\* are equal, and the completion callback is invoked only by the playing
\* tick whose elapsed time first reaches totalAnimationTime: the tick
\* started not completed, with the elapsed time still short of the total.
C21_NotifiedWithCompleted ==
  /\ [](hasCompletedRef = completionNotifiedRef)
  /\ [][Has(log', CompleteEv) =>
          /\ lastOp' = "tick"
          /\ isPlaying'
          /\ ~hasCompletedRef
          /\ ~completionNotifiedRef
          /\ animationStartRef # Null
          /\ clock - animationStartRef < totalAnimationTime
          /\ animationStartRef' = animationStartRef
          /\ clock' - animationStartRef' >= totalAnimationTime
          /\ hasCompletedRef'
          /\ completionNotifiedRef']_vars

\* The tick that completes a second play session has just invoked the
\* callback, the first session having been reset by a pause.
C21_Witness ==
  /\ PlayingTick
  /\ Has(log, CompleteEv)
  /\ completions = 2
  /\ hasCompletedRef
  /\ completionNotifiedRef

\* ------------------------------------------------------------------ C22
\* C22: in App, hasStarted and sceneStarted never return to false once
\* true, so isScenePlaying never goes from true to false; once a frame has
\* run with isPlaying true every later frame does (the controller never
\* takes its paused branch after playing begins, and a paused tick finds a
\* controller that never played); and onAnimationComplete is delivered at
\* most once in App's lifetime.
C22_PlaysOnce ==
  /\ [][/\ hasStarted => hasStarted'
        /\ sceneStarted => sceneStarted'
        /\ isScenePlaying => isScenePlaying'
        /\ isPlaying => isPlaying']_vars
  /\ [](~isPlaying => animationStartRef = Null /\ completions = 0)
  /\ [](completions <= 1)
  /\ [](hasAnimationCompleted <=> completions = 1)

\* The animation has completed once, the candle is blown out and the
\* terminal is shown, and a further playing frame has run.
C22_Witness ==
  /\ PlayingTick
  /\ completions = 1
  /\ hasAnimationCompleted
  /\ ~isCandleLit
  /\ showCameraModal
  /\ ~Has(log, CompleteEv)

\* ------------------------------------------------------------------ C23
\* C23: the candle is blown out only by a Space press that arrives after the
\* animation has completed: isCandleLit = false implies
\* hasAnimationCompleted, fireworksActive is true exactly when the candle
\* is not lit, and a Space press between the start and the completion of
\* the animation changes nothing.
C23_BlowOutAfterCompletion ==
  /\ [](~isCandleLit => hasAnimationCompleted)
  /\ [](fireworksActive <=> ~isCandleLit)
  /\ [][(isCandleLit /\ ~isCandleLit') =>
          SpaceKey /\ hasStarted /\ hasAnimationCompleted]_vars
  /\ [][(SpaceKey /\ hasStarted /\ ~hasAnimationCompleted) =>
          UNCHANGED appState]_vars

\* The shipped intro was typed, the animation completed and a Space press
\* blew out the candle.
C23_Witness ==
  /\ TYPED_LINES = ShippedTypedLines
  /\ hasAnimationCompleted
  /\ ~isCandleLit
  /\ fireworksActive
  /\ ~showCameraModal

\* ------------------------------------------------------------------ C24
\* Every terminal line is shown in full.
AllTerminalLinesRevealed ==
  terminalTypedLines =
    IF Len(TERMINAL_LINES) = 0 THEN <<<<>>>> ELSE TERMINAL_LINES

\* C24: the terminal modal is closed only after terminal typing is complete;
\* terminalTypingComplete becomes true only by the line-delay timeout, with
\* every terminal line already fully revealed; and a try at closing before
\* that leaves all state unchanged.
C24_CloseAfterTyping ==
  /\ [][(showCameraModal /\ ~showCameraModal') =>
          handleCloseModal /\ terminalTypingComplete]_vars
  /\ [][(~terminalTypingComplete /\ terminalTypingComplete') =>
          /\ showCameraModal
          /\ AllTerminalLinesRevealed
          /\ lastFired'.owner = "terminal"
          /\ lastFired'.kind = "line"]_vars
  /\ [][(handleCloseModal /\ ~terminalTypingComplete) =>
          UNCHANGED appState]_vars

\* The terminal has just finished typing three lines, the last of them
\* empty: it can now be closed.
C24_Witness ==
  /\ showCameraModal
  /\ terminalTypingComplete
  /\ lastFired.kind = "line"
  /\ Len(TERMINAL_LINES) = 3
  /\ Len(TERMINAL_LINES[2]) > 0
  /\ Len(TERMINAL_LINES[3]) = 0
  /\ terminalLineIndex = 1

\* ------------------------------------------------------------------ C25
\* C25: after the first Space press, with timers and frames firing, the
\* intro eventually finishes typing and sceneStarted eventually becomes
\* true; once the scene plays on attached refs, hasAnimationCompleted
\* eventually becomes true (for every play that begins early enough for
\* totalAnimationTime to fit under the clock bound); and a Space press
\* after that, with the candle lit, blows out the candle.
C25_EndToEnd ==
  /\ hasStarted ~> typingComplete
  /\ hasStarted ~> sceneStarted
  /\ (isScenePlaying /\ refsAttached
        /\ clock + totalAnimationTime + 2 * MaxStep <= MaxClock)
       ~> hasAnimationCompleted
  /\ [][(SpaceKey /\ hasAnimationCompleted /\ isCandleLit) =>
          (~isCandleLit' /\ fireworksActive')]_vars

\* The scene started playing one frame interval into the run, completed,
\* and the candle was then blown out.
C25_Witness ==
  /\ hasStarted
  /\ sceneStarted
  /\ animationStartRef = MaxStep
  /\ hasCompletedRef
  /\ hasAnimationCompleted
  /\ ~isCandleLit
  /\ fireworksActive

====
